---- MODULE Spec2Model ----
(***************************************************************************)
(* Physico: the PhysicsEngine React component (src/PhysicsEngine.js).      *)
(*                                                                         *)
(* Numbers.  JavaScript numbers are modelled on a fixed-point grid: one    *)
(* unit is 1/16 pixel (lengths, positions, velocities per tick).  A        *)
(* multiplication by a fraction or a division truncates to the grid, which *)
(* stands for floating-point rounding.  Fractions (drag, bounceFriction)   *)
(* are hundredths, probabilities and random draws are thousandths, angles  *)
(* and scale are hundredths.  NaN is a value of its own that every         *)
(* arithmetic operation propagates and every comparison answers false to.  *)
(*                                                                         *)
(* Objects.  JavaScript objects are shared by reference: `heap` maps a     *)
(* body's identity to its fields, and an array of bodies is a sequence of  *)
(* identities.  Several arrays (the React state, the arrays captured by    *)
(* the closures of animate) may hold the same bodies.                      *)
(***************************************************************************)
EXTENDS Integers, Sequences, FiniteSets, TLC

VARIABLES
    props,      \* the component's props and the window's size (fixed per run)
    heap,       \* sequence of body records: heap[id] is the body object id
    objects,    \* the React state `objects`: a sequence of body ids
    loops,      \* the live animate closures: the `objects` array each captured
    pending,    \* initialize() calls whose createObjects() has not settled
    ticks,      \* executions of animate() so far
    loads,      \* createObjects() calls that settled (resolved or rejected)
    log,        \* what the last execution of animate() did, in order
    lows,       \* Math.random() results below the reproduction chance so far
    input       \* the bodies a run of one function alone was given: the pair
                \* before it was resolved or tested, the body before its last
                \* updateObject (<<>> in the runs of the component)

vars == <<props, heap, objects, loops, pending, ticks, loads, log, lows, input>>

\* ------------------------------------------------------------------ bounds

\* animate() executions explored.
MaxTicks == 3
\* createObjects() calls whose settling is explored.
MaxLoads == 1

\* Results of Math.random() below the reproduction chance explored per run.
MaxLowDraws == 2

\* Calls of updateObject on one body explored (the scale's period is 50).
MaxSteps == 52

\* ----------------------------------------------------------------- numbers

\* n pixels (or pixels per tick) on the grid.
PX(n) == 16 * n

\* The result of 0 / 0.
NaN == -1073741824

IsNaN(a) == a = NaN

Add(a, b) == IF IsNaN(a) \/ IsNaN(b) THEN NaN ELSE a + b

Sub(a, b) == IF IsNaN(a) \/ IsNaN(b) THEN NaN ELSE a - b

Neg(a) == IF IsNaN(a) THEN NaN ELSE 0 - a

\* n / d for d > 0, rounded towards zero.
Trunc(n, d) == IF n >= 0 THEN n \div d ELSE 0 - ((0 - n) \div d)

\* a * f for a fraction f given in hundredths.
MulFrac(a, f) == IF IsNaN(a) THEN NaN ELSE Trunc(a * f, 100)

\* a < b and a > b of JavaScript: false when either side is NaN.
Less(a, b) == ~IsNaN(a) /\ ~IsNaN(b) /\ a < b

Greater(a, b) == Less(b, a)

\* Math.max and Math.min: NaN when either argument is NaN.
MathMax(a, b) == IF IsNaN(a) \/ IsNaN(b) THEN NaN ELSE IF a >= b THEN a ELSE b

MathMin(a, b) == IF IsNaN(a) \/ IsNaN(b) THEN NaN ELSE IF a <= b THEN a ELSE b

\* a / 2.
Half(a) == IF IsNaN(a) THEN NaN ELSE Trunc(a, 2)

Abs(a) == IF a >= 0 THEN a ELSE 0 - a

\* ------------------------------------------------------------------- props

\* The props of the runs explored (the other props keep their defaults;
\* gravity 0.2 is 3 units on the grid).  failing is the set of userImages
\* indices whose load fails.
PropsSet ==
    { [ gravity |-> 3, friction |-> 99, bounceFriction |-> 70, drag |-> 99,
        maxObjects |-> c[2], angularVelocityFactor |-> 5,
        objectCount |-> c[1], imageCount |-> 2, failing |-> f,
        innerWidth |-> PX(160), innerHeight |-> PX(160) ] :
      c \in {<<0, 1>>, <<2, 1>>, <<3, 4>>}, f \in {{}, {1}} }

\* --------------------------------------------------------- random numbers

\* What the randomBetween calls of createObjects return for one body: a body
\* that gravity leaves at rest in its first tick, a wider one on the same
\* centre moving right, and one 34 pixels to the right (out of the first's
\* reach, within the second's) moving left.
Starts ==
    { [x |-> PX(50), y |-> PX(50), width |-> PX(32), height |-> PX(32),
       velocityX |-> 0, velocityY |-> -3, angle |-> 0, angularVelocity |-> 5],
      [x |-> PX(50), y |-> PX(50), width |-> PX(48), height |-> PX(32),
       velocityX |-> PX(2), velocityY |-> 0, angle |-> 9000, angularVelocity |-> -5],
      [x |-> PX(84), y |-> PX(50), width |-> PX(32), height |-> PX(48),
       velocityX |-> PX(-2), velocityY |-> PX(1), angle |-> 18000, angularVelocity |-> 0] }

\* What the randomBetween calls of one createObjects return for n bodies: no
\* two bodies draw the same numbers.
StartsOf(n) ==
    { s \in [1..n -> Starts] : \A i, j \in 1..n : s[i] = s[j] => i = j }

\* What Math.random() returns in reproduceObject (thousandths): a value below
\* the reproduction chance of 0.01, or one above it.
Draws == [low |-> 5, high |-> 500]

\* The sets of at most m of the calls 1..k.
RECURSIVE FewOf(_, _)
FewOf(k, m) ==
    IF k = 0 \/ m = 0 THEN {{}}
    ELSE FewOf(k - 1, m) \cup {S \cup {k} : S \in FewOf(k - 1, m - 1)}

\* What the k calls of Math.random() of one tick return when at most m of
\* them are below the chance (which is 0.01: few are).
DrawsOf(k, m) ==
    { [i \in 1..k |-> IF i \in S THEN Draws.low ELSE Draws.high] : S \in FewOf(k, m) }

\* The results below the chance among draws.
LowDraws(draws) == Cardinality({i \in DOMAIN draws : draws[i] = Draws.low})

\* What the randomBetween calls of reproduceObject return for one child.
ChildRandoms ==
    { [velocityX |-> PX(1), velocityY |-> PX(-1), angle |-> 0, angularVelocity |-> 5],
      [velocityX |-> PX(-4), velocityY |-> PX(3), angle |-> 27000, angularVelocity |-> -5] }

AnyChild == CHOOSE c \in ChildRandoms : TRUE

\* What the randomBetween calls of a tick that spawns n children return (one
\* choice for all children of the tick; none is made when n = 0).
ChildRandomsOf(n) == IF n = 0 THEN {AnyChild} ELSE ChildRandoms

\* ------------------------------------------------------------ createObjects

\* A property a body object does not have reads as undefined, which compares
\* as NaN does.
Undefined == NaN

\* The object pushed for index i (from 0) by createObjects, s being what its
\* randomBetween calls returned.
NewBody(s, i, p) ==
    [ x |-> s.x, y |-> s.y, width |-> s.width, height |-> s.height,
      sprite |-> i % p.imageCount,
      velocityX |-> s.velocityX, velocityY |-> s.velocityY,
      angle |-> s.angle, angularVelocity |-> s.angularVelocity,
      scale |-> 100, mass |-> 1, reproductionChance |-> 10 ]

\* A createObjects that stops pushing at maxObjects bodies.
CreateObjectsCapped(starts, p) ==
    [ i \in 1..(IF p.objectCount <= p.maxObjects THEN p.objectCount ELSE p.maxObjects)
        |-> NewBody(starts[i], i - 1, p) ]

\* createObjects once Promise.all has resolved: objectCount new objects,
\* starts[i] being the random numbers of the i-th.
CreateObjects(starts, p) ==
    [ i \in 1..p.objectCount |-> NewBody(starts[i], i - 1, p) ]

\* --------------------------------------------------------- detectCollisions

\* A detector that compares the distance with the first body's width only.
DetectCollisionsOwnWidth(obj1, obj2) ==
    /\ ~IsNaN(obj1.x) /\ ~IsNaN(obj1.y) /\ ~IsNaN(obj2.x) /\ ~IsNaN(obj2.y)
    /\ LET distX == obj1.x - obj2.x
           distY == obj1.y - obj2.y
           reach == obj1.width + obj1.width
       IN 4 * (distX * distX + distY * distY) < reach * reach

\* distance < (obj1.width + obj2.width) / 2, both sides squared (both are
\* >= 0); false when a coordinate is NaN.
DetectCollisions(obj1, obj2) ==
    /\ ~IsNaN(obj1.x) /\ ~IsNaN(obj1.y) /\ ~IsNaN(obj2.x) /\ ~IsNaN(obj2.y)
    /\ LET distX == obj1.x - obj2.x
           distY == obj1.y - obj2.y
           reach == obj1.width + obj2.width
       IN 4 * (distX * distX + distY * distY) < reach * reach

\* ------------------------------------------------------------- updateObject

\* The four comparisons of the wall tests of lines 76 and 79, on the position
\* lines 67-73 give obj.
WallTest(obj, width, height, p) ==
    LET x1 == Add(obj.x, MulFrac(obj.velocityX, p.drag))
        y1 == Add(obj.y, MulFrac(Add(obj.velocityY, p.gravity), p.drag))
        halfW == obj.width \div 2
        halfH == obj.height \div 2
    IN [ right |-> Greater(Add(x1, halfW), width),
         left |-> Less(Sub(x1, halfW), 0),
         floor |-> Greater(Add(y1, halfH), height),
         ceiling |-> Less(Sub(y1, halfH), 0) ]

\* An updateObject that adds 0.01 to scale first and resets it to 1 afterwards.
UpdateObjectAddThenReset(obj, width, height, p) ==
    LET vY1 == Add(obj.velocityY, p.gravity)
        vX2 == MulFrac(obj.velocityX, p.drag)
        vY2 == MulFrac(vY1, p.drag)
        x1 == Add(obj.x, vX2)
        y1 == Add(obj.y, vY2)
        halfW == obj.width \div 2
        halfH == obj.height \div 2
        hitX == Greater(Add(x1, halfW), width) \/ Less(Sub(x1, halfW), 0)
        hitY == Greater(Add(y1, halfH), height) \/ Less(Sub(y1, halfH), 0)
        vX3 == IF hitX THEN MulFrac(Neg(vX2), p.bounceFriction) ELSE vX2
        vY3 == IF hitY THEN MulFrac(Neg(vY2), p.bounceFriction) ELSE vY2
        x2 == MathMin(MathMax(halfW, x1), width - halfW)
        y2 == MathMin(MathMax(halfH, y1), height - halfH)
        s1 == IF obj.scale + 1 >= 150 THEN 100 ELSE obj.scale + 1
    IN [ obj EXCEPT !.velocityX = vX3, !.velocityY = vY3, !.x = x2, !.y = y2,
                    !.angle = obj.angle + obj.angularVelocity,
                    !.scale = s1 ]

\* An updateObject whose wall bounce damps the velocity without reversing it.
UpdateObjectNoReversal(obj, width, height, p) ==
    LET vY1 == Add(obj.velocityY, p.gravity)
        vX2 == MulFrac(obj.velocityX, p.drag)
        vY2 == MulFrac(vY1, p.drag)
        x1 == Add(obj.x, vX2)
        y1 == Add(obj.y, vY2)
        halfW == obj.width \div 2
        halfH == obj.height \div 2
        hitX == Greater(Add(x1, halfW), width) \/ Less(Sub(x1, halfW), 0)
        hitY == Greater(Add(y1, halfH), height) \/ Less(Sub(y1, halfH), 0)
        vX3 == IF hitX THEN MulFrac(vX2, p.bounceFriction) ELSE vX2
        vY3 == IF hitY THEN MulFrac(vY2, p.bounceFriction) ELSE vY2
        x2 == MathMin(MathMax(halfW, x1), width - halfW)
        y2 == MathMin(MathMax(halfH, y1), height - halfH)
        s1 == IF obj.scale >= 150 THEN 100 ELSE obj.scale
    IN [ obj EXCEPT !.velocityX = vX3, !.velocityY = vY3, !.x = x2, !.y = y2,
                    !.angle = obj.angle + obj.angularVelocity,
                    !.scale = s1 + 1 ]

\* An updateObject that applies the friction prop to the angular velocity.
UpdateObjectSpinFriction(obj, width, height, p) ==
    LET vY1 == Add(obj.velocityY, p.gravity)
        vX2 == MulFrac(obj.velocityX, p.drag)
        vY2 == MulFrac(vY1, p.drag)
        x1 == Add(obj.x, vX2)
        y1 == Add(obj.y, vY2)
        halfW == obj.width \div 2
        halfH == obj.height \div 2
        hitX == Greater(Add(x1, halfW), width) \/ Less(Sub(x1, halfW), 0)
        hitY == Greater(Add(y1, halfH), height) \/ Less(Sub(y1, halfH), 0)
        vX3 == IF hitX THEN MulFrac(Neg(vX2), p.bounceFriction) ELSE vX2
        vY3 == IF hitY THEN MulFrac(Neg(vY2), p.bounceFriction) ELSE vY2
        x2 == MathMin(MathMax(halfW, x1), width - halfW)
        y2 == MathMin(MathMax(halfH, y1), height - halfH)
        s1 == IF obj.scale >= 150 THEN 100 ELSE obj.scale
    IN [ obj EXCEPT !.velocityX = vX3, !.velocityY = vY3, !.x = x2, !.y = y2,
                    !.angle = obj.angle + obj.angularVelocity,
                    !.angularVelocity = MulFrac(@, p.friction),
                    !.scale = s1 + 1 ]

UpdateObject(obj, width, height, p) ==
    LET vY1 == Add(obj.velocityY, p.gravity)
        vX2 == MulFrac(obj.velocityX, p.drag)
        vY2 == MulFrac(vY1, p.drag)
        x1 == Add(obj.x, vX2)
        y1 == Add(obj.y, vY2)
        halfW == obj.width \div 2
        halfH == obj.height \div 2
        hitX == Greater(Add(x1, halfW), width) \/ Less(Sub(x1, halfW), 0)
        hitY == Greater(Add(y1, halfH), height) \/ Less(Sub(y1, halfH), 0)
        vX3 == IF hitX THEN MulFrac(Neg(vX2), p.bounceFriction) ELSE vX2
        vY3 == IF hitY THEN MulFrac(Neg(vY2), p.bounceFriction) ELSE vY2
        x2 == MathMin(MathMax(halfW, x1), width - halfW)
        y2 == MathMin(MathMax(halfH, y1), height - halfH)
        s1 == IF obj.scale >= 150 THEN 100 ELSE obj.scale
    IN [ obj EXCEPT !.velocityX = vX3, !.velocityY = vY3, !.x = x2, !.y = y2,
                    !.angle = obj.angle + obj.angularVelocity,
                    !.scale = s1 + 1 ]

\* ---------------------------------------------------------- reproduceObject

\* The value reproduceObject returns, as a sequence: <<child>>, or <<>> for
\* null.  draw is what Math.random() returned, rnd the child's randomBetween
\* results, objectsLength the length of the `objects` array of the closure.
ReproduceObject(obj, obj2, draw, rnd, objectsLength, p) ==
    IF Less(draw, obj.reproductionChance) /\ objectsLength < p.maxObjects
    THEN << [ x |-> Half(Add(obj.x, obj2.x)),
              y |-> Half(Add(obj.y, obj2.y)),
              width |-> (obj.width + obj2.width) \div 2,
              height |-> (obj.height + obj2.height) \div 2,
              sprite |-> obj.sprite,
              velocityX |-> rnd.velocityX, velocityY |-> rnd.velocityY,
              angle |-> rnd.angle, angularVelocity |-> rnd.angularVelocity,
              scale |-> 100, mass |-> 1, reproductionChance |-> Undefined ] >>
    ELSE << >>

\* --------------------------------------------------- handleCollisionResponse

\* The dot product of obj1's velocity relative to obj2 with the vector from
\* obj1's centre to obj2's: `speed` times `distance`, so of the sign of `speed`.
ClosingDot(obj1, obj2) ==
    (obj1.velocityX - obj2.velocityX) * (obj2.x - obj1.x)
        + (obj1.velocityY - obj2.velocityY) * (obj2.y - obj1.y)

\* distance squared.
Distance2(obj1, obj2) ==
    (obj2.x - obj1.x) * (obj2.x - obj1.x) + (obj2.y - obj1.y) * (obj2.y - obj1.y)

\* Whether `speed` is NaN: the normal is 0 / 0 when distance is 0, and a NaN
\* velocity makes the relative velocity NaN.
SpeedIsNaN(obj1, obj2) ==
    \/ Distance2(obj1, obj2) = 0
    \/ IsNaN(obj1.velocityX) \/ IsNaN(obj1.velocityY)
    \/ IsNaN(obj2.velocityX) \/ IsNaN(obj2.velocityY)

\* A resolver whose impulse is speed / (m1 + m2), half of line 125's: it
\* damps the normal components of an equal-mass pair instead of exchanging
\* them.
ImpulseTermHalved(obj1, obj2, mass, delta) ==
    Trunc(mass * ClosingDot(obj1, obj2) * delta,
          (obj1.mass + obj2.mass) * Distance2(obj1, obj2))

\* impulse * mass * vCollisionNorm.c for the component c whose vCollision is
\* delta: (2 * speed / (m1 + m2)) * mass * (delta / distance), with
\* speed = ClosingDot / distance.
ImpulseTerm(obj1, obj2, mass, delta) ==
    Trunc(2 * mass * ClosingDot(obj1, obj2) * delta,
          (obj1.mass + obj2.mass) * Distance2(obj1, obj2))

\* A resolver without the early return of line 123: the impulse is applied
\* whatever the sign of speed.
HandleCollisionResponseUnguarded(obj1, obj2) ==
    IF SpeedIsNaN(obj1, obj2)
    THEN << [obj1 EXCEPT !.velocityX = NaN, !.velocityY = NaN],
            [obj2 EXCEPT !.velocityX = NaN, !.velocityY = NaN] >>
    ELSE << [obj1 EXCEPT
               !.velocityX = @ - ImpulseTerm(obj1, obj2, obj2.mass, obj2.x - obj1.x),
               !.velocityY = @ - ImpulseTerm(obj1, obj2, obj2.mass, obj2.y - obj1.y)],
            [obj2 EXCEPT
               !.velocityX = @ + ImpulseTerm(obj1, obj2, obj1.mass, obj2.x - obj1.x),
               !.velocityY = @ + ImpulseTerm(obj1, obj2, obj1.mass, obj2.y - obj1.y)] >>

\* The pair <<obj1, obj2>> after handleCollisionResponse(obj1, obj2).  The
\* guard `speed < 0` is false for a NaN speed, and the impulse is then NaN.
HandleCollisionResponse(obj1, obj2) ==
    IF SpeedIsNaN(obj1, obj2)
    THEN << [obj1 EXCEPT !.velocityX = NaN, !.velocityY = NaN],
            [obj2 EXCEPT !.velocityX = NaN, !.velocityY = NaN] >>
    ELSE IF ClosingDot(obj1, obj2) < 0
    THEN << obj1, obj2 >>
    ELSE << [obj1 EXCEPT
               !.velocityX = @ - ImpulseTerm(obj1, obj2, obj2.mass, obj2.x - obj1.x),
               !.velocityY = @ - ImpulseTerm(obj1, obj2, obj2.mass, obj2.y - obj1.y)],
            [obj2 EXCEPT
               !.velocityX = @ + ImpulseTerm(obj1, obj2, obj1.mass, obj2.x - obj1.x),
               !.velocityY = @ + ImpulseTerm(obj1, obj2, obj1.mass, obj2.y - obj1.y)] >>

\* ------------------------------------------------------------------ animate

\* A log entry: updateObject was called on objects[a].
UpdateEntry(a, size) ==
    [ op |-> "update", a |-> a, b |-> 0, hit |-> FALSE, draw |-> 0,
      chance |-> 0, size |-> size, spawned |-> FALSE ]

\* A log entry: detectCollisions(objects[a], objects[b]) returned hit; if so
\* Math.random() returned draw, the first body's reproductionChance was chance,
\* newObjects held size bodies, and spawned tells whether one was pushed.
TestEntry(a, b, hit, draw, chance, size, spawned) ==
    [ op |-> "test", a |-> a, b |-> b, hit |-> hit, draw |-> draw,
      chance |-> chance, size |-> size, spawned |-> spawned ]

\* A for loop that runs over newObjects, the array the children are pushed
\* to, instead of the array of the closure.
RECURSIVE PairLoopOverNewObjects(_, _, _, _, _, _, _)
PairLoopOverNewObjects(st, objs, idx, i, draws, child, p) ==
    IF i > Len(st.newObjects) THEN st
    ELSE
      LET a == objs[idx]
          b == st.newObjects[i]
          size == Len(st.newObjects)
      IN IF ~DetectCollisions(st.heap[a], st.heap[b])
         THEN PairLoopOverNewObjects(
                [st EXCEPT !.log = Append(@, TestEntry(idx, i, FALSE, 0, 0, size, FALSE))],
                objs, idx, i + 1, draws, child, p)
         ELSE
           LET pair == HandleCollisionResponse(st.heap[a], st.heap[b])
               h1 == [st.heap EXCEPT ![a] = pair[1], ![b] = pair[2]]
               k == st.collisions + 1
               draw == IF k \in DOMAIN draws THEN draws[k] ELSE Draws.high
               born == ReproduceObject(h1[a], h1[b], draw, child, Len(objs), p)
               h2 == h1 \o born
           IN PairLoopOverNewObjects(
                [ heap |-> h2,
                  newObjects |-> IF born = << >> THEN st.newObjects
                                 ELSE Append(st.newObjects, Len(h2)),
                  log |-> Append(st.log,
                            TestEntry(idx, i, TRUE, draw, h1[a].reproductionChance,
                                      size, born # << >>)),
                  collisions |-> k ],
                objs, idx, i + 1, draws, child, p)

\* The for loop of animate over i >= the given i, for the body at idx.
\* st holds the heap, newObjects, the log and the collisions found so far;
\* draws[k] is what Math.random() returns at the k-th collision, child what
\* the randomBetween calls return for a child.
RECURSIVE PairLoop(_, _, _, _, _, _, _)
PairLoop(st, objs, idx, i, draws, child, p) ==
    IF i > Len(objs) THEN st
    ELSE
      LET a == objs[idx]
          b == objs[i]
          size == Len(st.newObjects)
      IN IF ~DetectCollisions(st.heap[a], st.heap[b])
         THEN PairLoop(
                [st EXCEPT !.log = Append(@, TestEntry(idx, i, FALSE, 0, 0, size, FALSE))],
                objs, idx, i + 1, draws, child, p)
         ELSE
           LET pair == HandleCollisionResponse(st.heap[a], st.heap[b])
               h1 == [st.heap EXCEPT ![a] = pair[1], ![b] = pair[2]]
               k == st.collisions + 1
               draw == IF k \in DOMAIN draws THEN draws[k] ELSE Draws.high
               born == ReproduceObject(h1[a], h1[b], draw, child, Len(objs), p)
               h2 == h1 \o born
           IN PairLoop(
                [ heap |-> h2,
                  newObjects |-> IF born = << >> THEN st.newObjects
                                 ELSE Append(st.newObjects, Len(h2)),
                  log |-> Append(st.log,
                            TestEntry(idx, i, TRUE, draw, h1[a].reproductionChance,
                                      size, born # << >>)),
                  collisions |-> k ],
                objs, idx, i + 1, draws, child, p)

\* A tick that integrates every body first and tests the pairs afterwards:
\* updateObject on the bodies from idx on, ...
RECURSIVE IntegrateAll(_, _, _, _)
IntegrateAll(st, objs, idx, p) ==
    IF idx > Len(objs) THEN st
    ELSE IntegrateAll(
           [st EXCEPT
              !.heap[objs[idx]] = UpdateObject(@, p.innerWidth, p.innerHeight, p),
              !.log = Append(@, UpdateEntry(idx, Len(st.newObjects)))],
           objs, idx + 1, p)

\* ... the pair loops of the bodies from idx on, ...
RECURSIVE PairsFrom(_, _, _, _, _, _)
PairsFrom(st, objs, idx, draws, child, p) ==
    IF idx > Len(objs) THEN st
    ELSE PairsFrom(PairLoop(st, objs, idx, idx + 1, draws, child, p),
                   objs, idx + 1, draws, child, p)

\* ... and the two in a row.
ForEachIntegrateFirst(st, objs, idx, draws, child, p) ==
    PairsFrom(IntegrateAll(st, objs, idx, p), objs, idx, draws, child, p)

\* objects.forEach of animate, from index idx on.
RECURSIVE ForEach(_, _, _, _, _, _)
ForEach(st, objs, idx, draws, child, p) ==
    IF idx > Len(objs) THEN st
    ELSE
      LET a == objs[idx]
          st1 == [st EXCEPT
                    !.heap[a] = UpdateObject(@, p.innerWidth, p.innerHeight, p),
                    !.log = Append(@, UpdateEntry(idx, Len(st.newObjects)))]
      IN ForEach(PairLoop(st1, objs, idx, idx + 1, draws, child, p),
                 objs, idx + 1, draws, child, p)

\* One execution of animate in a closure whose `objects` is objs, on heap h:
\* the heap and newObjects it leaves, its log, and the collisions it found.
Animate(h, objs, draws, child, p) ==
    ForEach([heap |-> h, newObjects |-> objs, log |-> << >>, collisions |-> 0],
            objs, 1, draws, child, p)

\* The number of Math.random() calls animate makes in reproduceObject: one per
\* collision, and which pairs collide does not depend on what they return.
Collisions(h, objs, p) ==
    Animate(h, objs, << >>, AnyChild, p).collisions

\* ----------------------------------------------------------- the component

Init ==
    /\ props \in PropsSet
    /\ heap = << >>
    /\ objects = << >>
    /\ loops = << >>
    /\ pending = 0
    /\ ticks = 0
    /\ loads = 0
    /\ log = << >>
    /\ lows = 0
    /\ input = << >>

\* animate() in the closure whose `objects` is objs: the bodies are updated in
\* place and setObjects(newObjects) replaces the React state.
Tick(objs) ==
    \E draws \in DrawsOf(Collisions(heap, objs, props), MaxLowDraws - lows) :
      \E child \in ChildRandomsOf(Len(Animate(heap, objs, draws, AnyChild, props).newObjects)
                                     - Len(objs)) :
        LET st == Animate(heap, objs, draws, child, props)
        IN /\ heap' = st.heap
           /\ objects' = st.newObjects
           /\ log' = st.log
           /\ ticks' = ticks + 1
           /\ lows' = lows + LowDraws(draws)

\* The effect of useEffect(..., [objects]), run after the first render and
\* after every render that follows a setObjects (each passes a new array):
\* it calls initialize(), whose createObjects() settles later, and animate(),
\* which executes once at once and registers itself for every later frame.
\* No cleanup cancels the loops of earlier runs.
Effect ==
    /\ ticks < MaxTicks
    /\ Tick(objects)
    /\ loops' = Append(loops, objects)
    /\ pending' = pending + 1
    /\ UNCHANGED <<props, loads, input>>

\* A frame callback: requestAnimationFrame runs the animate of one of the
\* closures registered so far, on the array that closure captured.
Frame ==
    /\ ticks < MaxTicks
    /\ \E l \in 1..Len(loops) : Tick(loops[l])
    /\ UNCHANGED <<props, loops, pending, loads, input>>

\* The Promise.all of one createObjects() settles.  If every image loaded,
\* createObjects pushes objectCount bodies and initialize calls
\* setObjects(initialObjects); if one failed, Promise.all rejects, createObjects
\* and initialize reject with it, and setObjects is not called.
LoadDone ==
    /\ pending > 0
    /\ loads < MaxLoads
    /\ pending' = pending - 1
    /\ loads' = loads + 1
    /\ IF props.failing = {}
       THEN \E starts \in StartsOf(props.objectCount) :
              LET initialObjects == CreateObjects(starts, props)
              IN /\ heap' = heap \o initialObjects
                 /\ objects' = [i \in 1..Len(initialObjects) |-> Len(heap) + i]
       ELSE UNCHANGED <<heap, objects>>
    /\ UNCHANGED <<props, loops, ticks, log, lows, input>>

Next == Effect \/ Frame \/ LoadDone

Spec == Init /\ [][Next]_vars

\* ------------------------------------- handleCollisionResponse on its own

\* The velocities a pair is resolved with.
PairVelocities ==
    { <<PX(5), 0>>, <<PX(-5), 0>>, <<0, 0>>, <<PX(2), PX(-3)>>, <<-24, 7>> }

\* Where the second body's centre lies relative to the first's.
PairOffsets ==
    { <<0, 0>>, <<PX(20), 0>>, <<0, PX(-20)>>, <<PX(12), PX(16)>>,
      <<-100, 37>>, <<PX(60), 0>> }

\* A body of createObjects at centre c with velocity v.
PairBody(c, v, i, p) ==
    NewBody([x |-> c[1], y |-> c[2], width |-> PX(32), height |-> PX(32),
             velocityX |-> v[1], velocityY |-> v[2],
             angle |-> 0, angularVelocity |-> 0], i, p)

\* Two bodies of one `objects` array, before animate tests them.
InitPair ==
    /\ props \in {p \in PropsSet : p.objectCount = 3 /\ p.failing = {}}
    /\ \E v1 \in PairVelocities, v2 \in PairVelocities, d \in PairOffsets :
         heap = << PairBody(<<PX(80), PX(80)>>, v1, 0, props),
                   PairBody(<<PX(80) + d[1], PX(80) + d[2]>>, v2, 1, props) >>
    /\ input = heap
    /\ objects = <<1, 2>>
    /\ loops = << >>
    /\ pending = 0
    /\ ticks = 0
    /\ loads = 0
    /\ log = << >>
    /\ lows = 0

\* Lines 158-159 of animate for the pair: handleCollisionResponse is called
\* if detectCollisions is true.
Resolve ==
    /\ ticks = 0
    /\ DetectCollisions(heap[1], heap[2])
    /\ heap' = HandleCollisionResponse(heap[1], heap[2])
    /\ ticks' = 1
    /\ UNCHANGED <<props, objects, loops, pending, loads, log, lows, input>>

NextPair == Resolve

SpecPair == InitPair /\ [][NextPair]_vars

\* -------------------------------------------- detectCollisions on its own

\* Where the second body's centre lies relative to the first's (distances 0,
\* 20, 35, 35 and 60 pixels).
DetectOffsets ==
    { <<0, 0>>, <<PX(20), 0>>, <<PX(35), 0>>, <<PX(-28), PX(21)>>, <<PX(60), 0>> }

\* The widths and heights createObjects draws (30 to 50 pixels).
DetectSizes == { PX(30), PX(40), PX(50) }

\* A body of createObjects at centre c, of width w and height h.
DetectBody(c, w, h, i, p) ==
    NewBody([x |-> c[1], y |-> c[2], width |-> w, height |-> h,
             velocityX |-> 0, velocityY |-> 0,
             angle |-> 0, angularVelocity |-> 0], i, p)

\* Two bodies of one `objects` array.
InitDetect ==
    /\ props \in {p \in PropsSet : p.objectCount = 3 /\ p.failing = {}}
    /\ \E d \in DetectOffsets, w1 \in DetectSizes, w2 \in DetectSizes,
          h1 \in DetectSizes, h2 \in DetectSizes :
         heap = << DetectBody(<<PX(80), PX(80)>>, w1, h1, 0, props),
                   DetectBody(<<PX(80) + d[1], PX(80) + d[2]>>, w2, h2, 1, props) >>
    /\ input = heap
    /\ objects = <<1, 2>>
    /\ loops = << >>
    /\ pending = 0
    /\ ticks = 0
    /\ loads = 0
    /\ log = << >>
    /\ lows = 0

\* detectCollisions is called on the pair in both orders; the log keeps what
\* the two calls returned.
Detect ==
    /\ ticks = 0
    /\ log' = << TestEntry(1, 2, DetectCollisions(heap[1], heap[2]), 0, 0, 2, FALSE),
                 TestEntry(2, 1, DetectCollisions(heap[2], heap[1]), 0, 0, 2, FALSE) >>
    /\ ticks' = 1
    /\ UNCHANGED <<props, heap, objects, loops, pending, loads, lows, input>>

NextDetect == Detect

SpecDetect == InitDetect /\ [][NextDetect]_vars

\* ------------------------------------------------ updateObject on its own

\* What the randomBetween calls of createObjects return for the body that is
\* integrated: bodies thrown at each of the four walls, and one at rest.
UpdateStarts ==
    { [x |-> PX(50), y |-> PX(50), width |-> PX(32), height |-> PX(32),
       velocityX |-> PX(-5), velocityY |-> PX(-5), angle |-> 0, angularVelocity |-> 5],
      [x |-> PX(110), y |-> PX(110), width |-> PX(48), height |-> PX(32),
       velocityX |-> PX(5), velocityY |-> PX(5), angle |-> 9000, angularVelocity |-> -5],
      [x |-> PX(110), y |-> PX(50), width |-> PX(32), height |-> PX(48),
       velocityX |-> 40, velocityY |-> -70, angle |-> 18000, angularVelocity |-> 0],
      [x |-> PX(80), y |-> PX(80), width |-> PX(40), height |-> PX(40),
       velocityX |-> 0, velocityY |-> 0, angle |-> 27000, angularVelocity |-> 2] }

\* The bounceFriction props explored: none, the default, and 1.
UpdateProps ==
    { [p EXCEPT !.bounceFriction = b] :
        p \in {q \in PropsSet : q.objectCount = 3 /\ q.failing = {}},
        b \in {0, 70, 100} }

\* One body of createObjects, alone in its `objects` array.
InitUpdate ==
    /\ props \in UpdateProps
    /\ \E s \in UpdateStarts : heap = << NewBody(s, 0, props) >>
    /\ input = heap
    /\ objects = <<1>>
    /\ loops = << >>
    /\ pending = 0
    /\ ticks = 0
    /\ loads = 0
    /\ log = << >>
    /\ lows = 0

\* Line 153 of animate for the body: updateObject(obj, width, height).  input
\* keeps the body as it was before the call.
Integrate ==
    /\ ticks < MaxSteps
    /\ input' = heap
    /\ heap' = << UpdateObject(heap[1], props.innerWidth, props.innerHeight, props) >>
    /\ ticks' = ticks + 1
    /\ UNCHANGED <<props, objects, loops, pending, loads, log, lows>>

NextUpdate == Integrate

SpecUpdate == InitUpdate /\ [][NextUpdate]_vars

\* ================================================================== claims

\* The bodies of the React state.
Committed == { objects[i] : i \in 1..Len(objects) }

\* v is a number in lo..hi.
InRange(v, lo, hi) == ~IsNaN(v) /\ lo <= v /\ v <= hi

\* The two velocity components of both bodies of pair q are those of pair r.
SameVelocities(q, r) ==
    \A i \in 1..2 : /\ q[i].velocityX = r[i].velocityX
                    /\ q[i].velocityY = r[i].velocityY

\* handleCollisionResponse has been applied to the pair `input`, whose centres
\* are distinct.
Resolved == ticks = 1 /\ Distance2(input[1], input[2]) > 0

\* C1: in every state the React state holds at most maxObjects bodies when
\* objectCount <= maxObjects, also after a tick in which several pairs spawn.
C1_PopulationWithinCap ==
    props.objectCount <= props.maxObjects => Len(objects) <= props.maxObjects

\* C2: once a tick has run, no step removes a body from the React state: every
\* body of `objects` is still in `objects` after the step.
C2_BodiesNeverRemoved ==
    [][ticks > 0 => \A id \in Committed : \E j \in 1..Len(objects') : objects'[j] = id]_vars

\* C3: every body of the React state has x in [width/2, innerWidth - width/2]
\* and y in [height/2, innerHeight - height/2].
C3_PositionsInBounds ==
    \A id \in Committed :
        /\ InRange(heap[id].x, heap[id].width \div 2,
                   props.innerWidth - heap[id].width \div 2)
        /\ InRange(heap[id].y, heap[id].height \div 2,
                   props.innerHeight - heap[id].height \div 2)

\* C4: every velocity component of every body is a finite number (not NaN).
C4_VelocitiesFinite ==
    \A id \in DOMAIN heap :
        ~IsNaN(heap[id].velocityX) /\ ~IsNaN(heap[id].velocityY)

\* C5: handleCollisionResponse on a pair whose centres are at distance 0
\* leaves the velocities of both bodies as they were.
C5_ZeroDistanceNoOp ==
    (ticks = 1 /\ Distance2(input[1], input[2]) = 0) => SameVelocities(heap, input)

\* C6: when the load of a createObjects() settles although an image failed,
\* the React state is set to objectCount bodies.
C6_InitSurvivesFailedImage ==
    [][(loads' = loads + 1 /\ props.failing # {})
          => Len(objects') = props.objectCount]_vars

\* C7: animate() has not executed before a createObjects() has settled.
C7_NoTickBeforeLoad == ticks > 0 => loads > 0

\* C8 as stated: a colliding pair whose closing speed is >= 0 keeps its
\* velocities.
C8_NonNegativeClosingNoOp ==
    (Resolved /\ ClosingDot(input[1], input[2]) >= 0) => SameVelocities(heap, input)

\* C8 as amended: a colliding pair whose closing speed is < 0 (the bodies are
\* separating along the normal) keeps its velocities.
C8_NegativeClosingNoOp ==
    (Resolved /\ ClosingDot(input[1], input[2]) < 0) => SameVelocities(heap, input)

C8_Witness ==
    /\ Resolved
    /\ ClosingDot(input[1], input[2]) < 0
    /\ input[1].velocityX # input[2].velocityX

\* The component of body o's velocity along the vector from q[1] to q[2], and
\* across it, both times the distance.
Along(o, q) ==
    o.velocityX * (q[2].x - q[1].x) + o.velocityY * (q[2].y - q[1].y)

Across(o, q) ==
    o.velocityX * (q[2].y - q[1].y) - o.velocityY * (q[2].x - q[1].x)

\* One grid unit per velocity component, times the distance.
Tolerance(q) == Abs(q[2].x - q[1].x) + Abs(q[2].y - q[1].y)

\* The pair `heap` is the pair `input` with the components along the normal
\* exchanged and the components across it kept, up to the rounding of the
\* grid, and exactly when the normal is the x axis.
Exchanged ==
    /\ \A i \in 1..2 : ~IsNaN(heap[i].velocityX) /\ ~IsNaN(heap[i].velocityY)
    /\ Abs(Along(heap[1], input) - Along(input[2], input)) <= Tolerance(input)
    /\ Abs(Along(heap[2], input) - Along(input[1], input)) <= Tolerance(input)
    /\ \A i \in 1..2 :
         Abs(Across(heap[i], input) - Across(input[i], input)) <= Tolerance(input)
    /\ input[1].y = input[2].y =>
         /\ heap[1].velocityX = input[2].velocityX
         /\ heap[2].velocityX = input[1].velocityX
         /\ heap[1].velocityY = input[1].velocityY
         /\ heap[2].velocityY = input[2].velocityY

\* C9 as stated: every colliding pair (of equal masses, with a normal) has its
\* normal velocity components exchanged and its tangential ones kept.
C9_ExchangeForEveryPair == Resolved => Exchanged

\* C9 as amended: a colliding pair whose closing speed is >= 0 has its normal
\* velocity components exchanged and its tangential ones kept; velocities
\* (5,0) and (-5,0) head-on along x become (-5,0) and (5,0).
C9_ExchangeWhenClosing ==
    (Resolved /\ ClosingDot(input[1], input[2]) >= 0) => Exchanged

C9_Witness ==
    /\ Resolved
    /\ input[1].y = input[2].y /\ input[1].x < input[2].x
    /\ <<input[1].velocityX, input[1].velocityY>> = <<PX(5), 0>>
    /\ <<input[2].velocityX, input[2].velocityY>> = <<PX(-5), 0>>
    /\ <<heap[1].velocityX, heap[1].velocityY>> = <<PX(-5), 0>>
    /\ <<heap[2].velocityX, heap[2].velocityY>> = <<PX(5), 0>>

\* C10: in the last tick a child was pushed for a tested pair if and only if
\* the pair collided, the draw was below the first body's reproductionChance
\* and the population (the bodies of the tick and the children it had
\* collected so far) was below maxObjects.
C10_SpawnIff ==
    \A k \in 1..Len(log) :
        log[k].op = "test" =>
            (log[k].spawned <=>
                /\ log[k].hit
                /\ Less(log[k].draw, log[k].chance)
                /\ log[k].size < props.maxObjects)

\* C11: every body, the children of reproduceObject included, carries a
\* reproductionChance in [0, 1] (0..1000 thousandths), so that a child can be
\* the spawning body of a later collision.
C11_ChanceCarried ==
    \A id \in DOMAIN heap : InRange(heap[id].reproductionChance, 0, 1000)

\* C17: at most one animate loop is live: no second closure, holding an older
\* `objects` array, is registered for the frames.
C17_SingleLoop == Len(loops) <= 1

\* C12: detectCollisions(a, b) and detectCollisions(b, a) return the same,
\* whatever the positions, widths and heights of a and b.
C12_DetectionSymmetric ==
    ticks = 1 => log[1].hit = log[2].hit

C12_Witness ==
    /\ ticks = 1
    /\ input[1].width < input[2].width /\ input[1].height # input[2].height
    /\ Distance2(input[1], input[2]) > input[1].width * input[1].width
    /\ log[1].hit /\ log[2].hit

UpdatesOf(a) == { j \in 1..Len(log) : log[j].op = "update" /\ log[j].a = a }

\* ... and the entries that are collision tests.
Tests == { k \in 1..Len(log) : log[k].op = "test" }

\* C14 as stated: in the last tick, both bodies of every tested pair had been
\* integrated (updateObject) before the pair was tested.
C14_IntegratedBeforeTested ==
    \A k \in Tests :
        /\ \E j \in UpdatesOf(log[k].a) : j < k
        /\ \E j \in UpdatesOf(log[k].b) : j < k

\* C14 as amended: in the last tick, the first body of every tested pair had
\* been integrated before the test, and the second body was integrated only
\* after it.
C14_FirstIntegratedSecondNot ==
    \A k \in Tests :
        /\ \E j \in UpdatesOf(log[k].a) : j < k
        /\ \E j \in UpdatesOf(log[k].b) : j > k
        /\ \A j \in UpdatesOf(log[k].b) : j > k

C14_Witness ==
    \E k \in Tests :
        /\ log[k].hit
        /\ log[k].a = 1 /\ log[k].b = 3
        /\ \E j \in UpdatesOf(3) : j > k

\* The number of bodies of the array the last tick ran on: what its first
\* entry recorded as the length of newObjects.
SnapshotSize == IF log = << >> THEN 0 ELSE log[1].size

\* C15: in the last tick, updateObject was called exactly once on each body
\* of the snapshot and on nothing else, and detectCollisions exactly once on
\* each pair of indices i < j of the snapshot and on nothing else; so a child
\* pushed in the tick is neither integrated nor tested in it.
C15_EachPairOnce ==
    LET n == SnapshotSize
    IN /\ \A j \in 1..Len(log) :
            /\ log[j].a \in 1..n
            /\ log[j].op = "test" => (log[j].b \in 1..n /\ log[j].a < log[j].b)
       /\ \A a \in 1..n : Cardinality(UpdatesOf(a)) = 1
       /\ \A a \in 1..n : \A b \in (a + 1)..n :
            Cardinality({k \in Tests : log[k].a = a /\ log[k].b = b}) = 1

C15_Witness ==
    /\ SnapshotSize = 3
    /\ Len(objects) = 5
    /\ Cardinality(Tests) = 3
    /\ \E k \in Tests : log[k].spawned /\ \E j \in Tests : j > k

\* updateObject has been applied to the body `input`, giving the body `heap`.
Integrated == ticks > 0 /\ Len(heap) = 1 /\ Len(input) = 1

\* C16 as stated: an integration step adds 0.01 to scale and then resets it to
\* 1 if the result is at least 1.5; scale is in [1, 1.5) after every step.
C16_AddThenReset ==
    Integrated =>
        /\ heap[1].scale = IF input[1].scale + 1 >= 150 THEN 100 ELSE input[1].scale + 1
        /\ InRange(heap[1].scale, 100, 149)

\* C16 as amended: an integration step resets scale to 1 if it is at least
\* 1.5 and then adds 0.01; scale is in [1.01, 1.51) after every step, and a
\* step on a scale of 1.5 or more gives 1.01.
C16_ResetThenAdd ==
    Integrated =>
        /\ heap[1].scale = (IF input[1].scale >= 150 THEN 100 ELSE input[1].scale) + 1
        /\ InRange(heap[1].scale, 101, 150)

C16_Witness ==
    /\ Integrated
    /\ ticks > 50
    /\ input[1].scale = 150
    /\ heap[1].scale = 101

\* Body obj lies within the bounds of lines 84-85.
Inside(obj) ==
    /\ InRange(obj.x, obj.width \div 2, props.innerWidth - obj.width \div 2)
    /\ InRange(obj.y, obj.height \div 2, props.innerHeight - obj.height \div 2)

\* The wall tests of the step that led from `input` to `heap`.
Crossed == WallTest(input[1], props.innerWidth, props.innerHeight, props)

\* C19: after an integration step of a body that was inside the bounds, the
\* velocity on an axis whose wall test fired points away from the wall that
\* was crossed, or is zero.
C19_BounceAwayFromWall ==
    (Integrated /\ Inside(input[1])) =>
        /\ ~IsNaN(heap[1].velocityX) /\ ~IsNaN(heap[1].velocityY)
        /\ Crossed.right => heap[1].velocityX <= 0
        /\ Crossed.left => heap[1].velocityX >= 0
        /\ Crossed.floor => heap[1].velocityY <= 0
        /\ Crossed.ceiling => heap[1].velocityY >= 0

C19_Witness ==
    /\ Integrated /\ Inside(input[1])
    /\ Crossed.floor
    /\ props.bounceFriction > 0
    /\ input[1].velocityY > 0
    /\ heap[1].velocityY < 0

\* Bodies o and q agree on the fields that are set at creation only.
SameMake(o, q) ==
    /\ o.mass = q.mass /\ o.width = q.width /\ o.height = q.height
    /\ o.angularVelocity = q.angularVelocity
    /\ o.sprite = q.sprite
    /\ o.reproductionChance = q.reproductionChance

\* C18: no step changes the mass, width, height, angularVelocity, sprite or
\* reproductionChance of a body that exists, and every mass is > 0.
C18_OnlyKinematicsChange ==
    [][\A id \in DOMAIN heap :
          /\ id \in DOMAIN heap'
          /\ SameMake(heap'[id], heap[id])
          /\ heap'[id].mass > 0]_vars

C18_Witness ==
    /\ ticks > 1
    /\ \E k \in Tests : log[k].hit
    /\ \A id \in DOMAIN heap : ~IsNaN(heap[id].velocityX)
    /\ \E id \in DOMAIN heap :
         /\ heap[id].scale > 100
         /\ heap[id].angle # 0 /\ heap[id].angularVelocity # 0

====
